---- MODULE Spec2Model ----
(***************************************************************************)
(* A model of the Kafka-protocol broker endpoint: the accept loop of main, *)
(* the per-connection handler threads (handle_stream), the shared          *)
(* ClusterMetadataLog behind its mutex, and the three request handlers.    *)
(*                                                                         *)
(* Threads are numbered: 0 is the main thread, 1..NConn are the handler    *)
(* threads, one per accepted connection.  UUIDs are modelled as strings,   *)
(* UuidNew being the all-zero UUID of Uuid::new().                         *)
(***************************************************************************)
EXTENDS Integers, Sequences, FiniteSets, TLC

(***************************************************************************)
(* Bounds of the model.                                                    *)
(***************************************************************************)
NConn == 2          \* connections the listener accepts
MaxReq == 2         \* frames the clients send in all (Spec, SpecLoad)
MaxRecords == 3     \* records of a metadata log file (SpecApi)
MaxTopics == 2      \* names in a DescribeTopicPartitions request (SpecApi)
MaxVersion == 5     \* largest request_api_version a client sends (SpecApi)
MaxVarintLen == 3   \* bytes of the varints enumerated in full (SpecCodec)
MaxCont == 10       \* high-bit bytes after the first of a long varint
MaxStrLen == 2      \* bytes of a string put through the codec (SpecCodec)
MaxArrayLen == 2    \* elements of an array put through the codec (SpecCodec)

(***************************************************************************)
(* Program constants.                                                      *)
(***************************************************************************)
ApiKeyFetch == 1
ApiKeyApiVersions == 18
ApiKeyDescribeTopicPartitions == 75

NoError == 0
UnknownTopicOrPartition == 3
UnsupportedVersion == 35
UnknownTopic == 100

RecordTypeTopic == 2
RecordTypePartition == 3
RecordTypeFeatureLevel == 12

\* Uuid::new(): sixteen zero bytes.
UuidNew == "00000000-0000-0000-0000-000000000000"

\* encode_tag_buffer(): a single zero byte.
encode_tag_buffer == <<0>>

Conns == 1..NConn

(***************************************************************************)
(* The primitives codec on bytes.  A byte is 0..255; byte & 0x80 == 0 is   *)
(* byte < 128, byte & 0x3f is byte % 64, and b | 0x80 is b + 128 for       *)
(* b < 64.  A parser returns result "ok" with the value and the bytes it   *)
(* left unread, "err" for an Err value, "panic" for a panic.               *)
(***************************************************************************)
Take(bytes, n) == SubSeq(bytes, 1, n)
Drop(bytes, n) == SubSeq(bytes, n + 1, Len(bytes))

\* The bytes the loop of parse_unsigned_varlong pushes: up to the first
\* byte without the high bit, or all of them when the reader ends first;
\* `panic` when the tenth byte pushed still has the high bit.
RECURSIVE VarlongRead(_, _)
VarlongRead(bytes, length) ==
    IF bytes = <<>> THEN [panic |-> FALSE, read |-> length]
    ELSE IF Head(bytes) < 128 THEN [panic |-> FALSE, read |-> length + 1]
    ELSE IF length + 1 = 10 THEN [panic |-> TRUE, read |-> length + 1]
    ELSE VarlongRead(Tail(bytes), length + 1)

\* The second loop of parse_unsigned_varlong, over the reversed bytes:
\* value <<= 7; value += byte & 0x3f.  `bytes` is in the order read.
RECURSIVE VarlongAccumulate(_)
VarlongAccumulate(bytes) ==
    IF bytes = <<>> THEN 0
    ELSE (Head(bytes) % 64) + 128 * VarlongAccumulate(Tail(bytes))

parse_unsigned_varlong(bytes) ==
    LET r == VarlongRead(bytes, 0) IN
    IF r.panic THEN [result |-> "panic", value |-> 0, rest |-> <<>>]
    ELSE [result |-> "ok",
          value |-> VarlongAccumulate(Take(bytes, r.read)),
          rest |-> Drop(bytes, r.read)]

\* The while loop of encode_varint: one byte (varint & 0x3f) | 0x80 per
\* round, varint >>= 7.
RECURSIVE VarintGroups(_)
VarintGroups(varint) ==
    IF varint = 0 THEN <<>>
    ELSE << (varint % 64) + 128 >> \o VarintGroups(varint \div 128)

encode_varint(varint) ==
    IF varint = 0 THEN <<0>>
    ELSE LET buf == VarintGroups(varint) IN
         [buf EXCEPT ![Len(buf)] = @ % 64]

\* to_be_bytes of a signed integer of `width` bytes (the Encoder of i8, i16
\* and i32; that of i64 does the same on eight bytes): two's complement,
\* most significant byte first.
RECURSIVE ToBeBytes(_, _)
ToBeBytes(x, width) ==
    IF width = 0 THEN <<>>
    ELSE ToBeBytes(x \div 256, width - 1) \o << x % 256 >>

\* from_be_bytes of a signed integer: the first byte carries the sign.
RECURSIVE FromBeBytes(_)
FromBeBytes(bytes) ==
    IF Len(bytes) = 1
    THEN (IF bytes[1] >= 128 THEN bytes[1] - 256 ELSE bytes[1])
    ELSE 256 * FromBeBytes(Take(bytes, Len(bytes) - 1)) + bytes[Len(bytes)]

\* parse_int8, parse_int16, parse_int32, parse_int64: read_exact of `width`
\* bytes (an Err when the reader is short), then from_be_bytes.
ParseInt(bytes, width) ==
    IF Len(bytes) < width THEN [result |-> "err", value |-> 0, rest |-> <<>>]
    ELSE [result |-> "ok", value |-> FromBeBytes(Take(bytes, width)),
          rest |-> Drop(bytes, width)]

parse_int8(bytes) == ParseInt(bytes, 1)
parse_int16(bytes) == ParseInt(bytes, 2)
parse_int32(bytes) == ParseInt(bytes, 4)
parse_int64(bytes) == ParseInt(bytes, 8)

encode_int8(x) == ToBeBytes(x, 1)
encode_int16(x) == ToBeBytes(x, 2)
encode_int32(x) == ToBeBytes(x, 4)
encode_int64(x) == ToBeBytes(x, 8)

encode_bool(value) == IF value THEN <<1>> ELSE <<0>>

parse_bool(bytes) ==
    IF Len(bytes) < 1 THEN [result |-> "err", value |-> FALSE, rest |-> <<>>]
    ELSE [result |-> "ok", value |-> (bytes[1] = 1), rest |-> Drop(bytes, 1)]

\* Uuid: sixteen bytes, written and read as they are.
Uuid_encode(uuid) == uuid

Uuid_parse(bytes) ==
    IF Len(bytes) < 16 THEN [result |-> "err", value |-> <<>>, rest |-> <<>>]
    ELSE [result |-> "ok", value |-> Take(bytes, 16), rest |-> Drop(bytes, 16)]

\* parse_tag_buffer: one byte is read and dropped.
parse_tag_buffer(bytes) ==
    IF Len(bytes) < 1 THEN [result |-> "err", value |-> <<>>, rest |-> <<>>]
    ELSE [result |-> "ok", value |-> <<>>, rest |-> Drop(bytes, 1)]

\* String::from_utf8 accepts the bytes: well-formed UTF-8.
IsCont(b) == b >= 128 /\ b <= 191

RECURSIVE ValidUtf8(_)
ValidUtf8(b) ==
    IF b = <<>> THEN TRUE
    ELSE IF b[1] < 128 THEN ValidUtf8(Drop(b, 1))
    ELSE IF b[1] >= 194 /\ b[1] <= 223
    THEN Len(b) >= 2 /\ IsCont(b[2]) /\ ValidUtf8(Drop(b, 2))
    ELSE IF b[1] >= 224 /\ b[1] <= 239
    THEN /\ Len(b) >= 3 /\ IsCont(b[2]) /\ IsCont(b[3])
         /\ (b[1] = 224 => b[2] >= 160)
         /\ (b[1] = 237 => b[2] <= 159)
         /\ ValidUtf8(Drop(b, 3))
    ELSE IF b[1] >= 240 /\ b[1] <= 244
    THEN /\ Len(b) >= 4 /\ IsCont(b[2]) /\ IsCont(b[3]) /\ IsCont(b[4])
         /\ (b[1] = 240 => b[2] >= 144)
         /\ (b[1] = 244 => b[2] <= 143)
         /\ ValidUtf8(Drop(b, 4))
    ELSE FALSE

\* parse_compact_string: the length varint, then length - 1 bytes.  With
\* length 0 the subtraction on usize underflows: a panic where overflow is
\* checked, and where it wraps the allocation of usize::MAX bytes panics.
\* A string is the sequence of its bytes.
parse_compact_string(bytes) ==
    LET l == parse_unsigned_varlong(bytes) IN
    IF l.result # "ok" THEN [result |-> l.result, value |-> <<>>, rest |-> <<>>]
    ELSE IF l.value = 0 THEN [result |-> "panic", value |-> <<>>, rest |-> <<>>]
    ELSE IF Len(l.rest) < l.value - 1 \/ ~ValidUtf8(Take(l.rest, l.value - 1))
    THEN [result |-> "err", value |-> <<>>, rest |-> <<>>]
    ELSE [result |-> "ok", value |-> Take(l.rest, l.value - 1),
          rest |-> Drop(l.rest, l.value - 1)]

\* encode_compact_string: the varint is that of buf.len() + 1 with buf
\* still empty, then the bytes of the string.
encode_compact_string(string) == encode_varint(0 + 1) \o string

\* encode_compact_nullable_string: None is <<>>, Some(s) is << s >>.
encode_compact_nullable_string(string) ==
    IF string = <<>> THEN <<0>>
    ELSE encode_varint(Len(string[1]) + 1) \o string[1]

\* The element loop of parse_compact_array::<i32>: n elements, or for
\* n = -1 (a wrapped count of 2^64 - 1) elements until the reader fails.
RECURSIVE ParseInt32Items(_, _, _)
ParseInt32Items(bytes, n, acc) ==
    IF n = 0 THEN [result |-> "ok", value |-> acc, rest |-> bytes]
    ELSE LET item == parse_int32(bytes) IN
         IF item.result # "ok"
         THEN [result |-> item.result, value |-> <<>>, rest |-> <<>>]
         ELSE ParseInt32Items(item.rest, IF n = -1 THEN -1 ELSE n - 1,
                              Append(acc, item.value))

\* The element loop of parse_compact_array_with_tag_buffer::<CompactString>:
\* a compact string and a tag buffer per element.
RECURSIVE ParseStringItems(_, _, _)
ParseStringItems(bytes, n, acc) ==
    IF n = 0 THEN [result |-> "ok", value |-> acc, rest |-> bytes]
    ELSE LET item == parse_compact_string(bytes) IN
         IF item.result # "ok"
         THEN [result |-> item.result, value |-> <<>>, rest |-> <<>>]
         ELSE LET tag == parse_tag_buffer(item.rest) IN
              IF tag.result # "ok"
              THEN [result |-> tag.result, value |-> <<>>, rest |-> <<>>]
              ELSE ParseStringItems(tag.rest, IF n = -1 THEN -1 ELSE n - 1,
                                    Append(acc, item.value))

\* How the build treats integer overflow: "checked" panics (the debug
\* profile), "wrapping" wraps (the release profile).
Builds == {"checked", "wrapping"}

\* `0..length - 1` on the u64 length of a compact array: the element count,
\* -1 standing for the wrapped 2^64 - 1.
ElementCount(length) == IF length = 0 THEN -1 ELSE length - 1

\* parse_compact_array over i32 elements.
parse_compact_array_int32(bytes, build) ==
    LET l == parse_unsigned_varlong(bytes) IN
    IF l.result # "ok" THEN [result |-> l.result, value |-> <<>>, rest |-> <<>>]
    ELSE IF l.value = 0 /\ build = "checked"
    THEN [result |-> "panic", value |-> <<>>, rest |-> <<>>]
    ELSE ParseInt32Items(l.rest, ElementCount(l.value), <<>>)

\* parse_compact_array_with_tag_buffer over CompactString elements.
parse_compact_array_with_tag_buffer(bytes, build) ==
    LET l == parse_unsigned_varlong(bytes) IN
    IF l.result # "ok" THEN [result |-> l.result, value |-> <<>>, rest |-> <<>>]
    ELSE IF l.value = 0 /\ build = "checked"
    THEN [result |-> "panic", value |-> <<>>, rest |-> <<>>]
    ELSE ParseStringItems(l.rest, ElementCount(l.value), <<>>)

RECURSIVE EncodeInt32Items(_)
EncodeInt32Items(array) ==
    IF array = <<>> THEN <<>>
    ELSE ToBeBytes(Head(array), 4) \o EncodeInt32Items(Tail(array))

\* encode_compact_array over i32 elements.
encode_compact_array_int32(array) ==
    (IF array = <<>> THEN encode_varint(0)
     ELSE encode_varint(Len(array) + 1)) \o EncodeInt32Items(array)

(***************************************************************************)
(* The metadata log file, as load() reads it: whether open() succeeds,     *)
(* whether reading it raises an I/O error, and the batches it holds.  A    *)
(* batch is its header (readable or cut short) and its records; a record   *)
(* is its fields (readable or cut short), the record_type byte and the     *)
(* body that follows it.                                                   *)
(***************************************************************************)
RawTopic(name, uuid) ==
    [ok |-> TRUE, rtype |-> RecordTypeTopic,
     body |-> [topic_name |-> name, topic_uuid |-> uuid]]

RawPartition(pid, tid) ==
    [ok |-> TRUE, rtype |-> RecordTypePartition,
     body |-> [partition_id |-> pid, topic_id |-> tid,
               replicas |-> <<1>>, isr |-> <<1>>,
               leader |-> 1, leader_epoch |-> pid]]

RawFeatureLevel ==
    [ok |-> TRUE, rtype |-> RecordTypeFeatureLevel,
     body |-> [name |-> "metadata.version", feature_level |-> 20]]

RawBatch(recs) == [hdr_ok |-> TRUE, records |-> recs]

FileOf(bs) == [open |-> TRUE, readable |-> TRUE, batches |-> bs]

(***************************************************************************)
(* RecordType::parse and RecordValue::parse: the record_type byte selects  *)
(* the body; any other byte panics.                                        *)
(***************************************************************************)
KnownRecordType(rtype) ==
    rtype \in {RecordTypeTopic, RecordTypePartition, RecordTypeFeatureLevel}

RecordValue_parse(raw) ==
    [type |-> IF raw.rtype = RecordTypeTopic THEN "Topic"
              ELSE IF raw.rtype = RecordTypePartition THEN "Partition"
              ELSE "FeatureLevel",
     body |-> raw.body]

\* Batch::parse: "err" when the header is cut short (the ? operator), "panic"
\* when a record does not parse (Record::parse(reader).unwrap(), or the
\* panic!() of RecordType::parse), otherwise the batch with its records.
Batch_parse(raw) ==
    IF ~raw.hdr_ok THEN [result |-> "err", records |-> <<>>]
    ELSE IF \E i \in 1..Len(raw.records) :
                ~raw.records[i].ok \/ ~KnownRecordType(raw.records[i].rtype)
         THEN [result |-> "panic", records |-> <<>>]
    ELSE [result |-> "ok",
          records |-> [i \in 1..Len(raw.records) |->
                          RecordValue_parse(raw.records[i])]]

\* The loop of load(): batches are parsed in file order; the first failure
\* ends the load.
RECURSIVE ParseBatches(_, _)
ParseBatches(raws, acc) ==
    IF raws = <<>> THEN [result |-> "ok", batches |-> acc]
    ELSE LET b == Batch_parse(Head(raws)) IN
         IF b.result # "ok" THEN [result |-> b.result, batches |-> <<>>]
         ELSE ParseBatches(Tail(raws), Append(acc, b.records))

\* The body of ClusterMetadataLog::load after its guard, on a log whose
\* fields are (wasLoaded, oldBatches), reading file f.  result: "ok", "err"
\* (an Err returned to main, whose expect panics) or "panic" (a panic inside
\* load).  The fields are assigned only after the whole file has parsed.
load_file(wasLoaded, oldBatches, f) ==
    IF ~f.open THEN
        [result |-> "panic", loaded |-> wasLoaded, batches |-> oldBatches]
    ELSE IF ~f.readable THEN
        [result |-> "err", loaded |-> wasLoaded, batches |-> oldBatches]
    ELSE LET p == ParseBatches(f.batches, <<>>) IN
         IF p.result = "ok"
         THEN [result |-> "ok", loaded |-> TRUE, batches |-> p.batches]
         ELSE [result |-> p.result, loaded |-> wasLoaded, batches |-> oldBatches]

\* A load() without the `if self.loaded` guard.
load_NoGuard(wasLoaded, oldBatches, f) == load_file(wasLoaded, oldBatches, f)

\* A load() that sets `loaded` although the file did not parse.
load_LoadedOnFailure(wasLoaded, oldBatches, f) ==
    IF wasLoaded THEN
        [result |-> "ok", loaded |-> wasLoaded, batches |-> oldBatches]
    ELSE [load_file(wasLoaded, oldBatches, f) EXCEPT !.loaded = TRUE]

\* ClusterMetadataLog::load.
load(wasLoaded, oldBatches, f) ==
    IF wasLoaded THEN
        [result |-> "ok", loaded |-> wasLoaded, batches |-> oldBatches]
    ELSE load_file(wasLoaded, oldBatches, f)

\* ClusterMetadataLog::records: the record bodies of all batches, in order.
RECURSIVE records(_)
records(bs) ==
    IF bs = <<>> THEN <<>> ELSE Head(bs) \o records(Tail(bs))

(***************************************************************************)
(* Requests.  A frame on the wire carries the header fields and a body; a  *)
(* compact array in a body is its length varint L and the items that       *)
(* follow it.                                                              *)
(***************************************************************************)
Frame(key, version, cid, body) ==
    [api_key |-> key, api_version |-> version, correlation_id |-> cid,
     body |-> body]

\* The wire form of a compact array holding `items`: L = N + 1.
CompactArray(items) == [len |-> Len(items) + 1, items |-> items]

\* parse_compact_array and parse_compact_array_with_tag_buffer, as used on a
\* request body: `for _ in 0..length - 1` on an unsigned length.  With L = 0
\* the subtraction underflows: a panic where overflow is checked, and where
\* it wraps the loop runs off the end of the frame and the element parser
\* panics there.  With more elements announced than the frame holds the
\* element parser fails and the caller's expect panics.
parse_compact_array(arr) ==
    IF arr.len = 0 \/ arr.len - 1 > Len(arr.items)
    THEN [result |-> "panic", items |-> <<>>]
    ELSE [result |-> "ok", items |-> SubSeq(arr.items, 1, arr.len - 1)]

KnownApiKey(key) ==
    key \in {ApiKeyFetch, ApiKeyApiVersions, ApiKeyDescribeTopicPartitions}

\* parse_request: the header, then the body the api key selects; an unknown
\* api key panics.
parse_request(frame) ==
    LET header == [request_api_key |-> frame.api_key,
                   request_api_version |-> frame.api_version,
                   correlation_id |-> frame.correlation_id]
    IN  IF ~KnownApiKey(frame.api_key)
        THEN [result |-> "panic", header |-> header, topics |-> <<>>]
        ELSE IF frame.api_key = ApiKeyApiVersions
        THEN [result |-> "ok", header |-> header, topics |-> <<>>]
        ELSE LET a == parse_compact_array(frame.body) IN
             [result |-> a.result, header |-> header, topics |-> a.items]

(***************************************************************************)
(* Handlers.                                                               *)
(***************************************************************************)
ApiKeys(key, min, max) ==
    [api_key |-> key, min_version |-> min, max_version |-> max]

handle_apiversions_NoLowerBound(header) ==
    [error_code |-> IF header.request_api_version <= 4
                    THEN NoError ELSE UnsupportedVersion,
     api_keys |-> << ApiKeys(ApiKeyFetch, 0, 16),
                     ApiKeys(ApiKeyApiVersions, 0, 4),
                     ApiKeys(ApiKeyDescribeTopicPartitions, 0, 0) >>,
     throttle_time_ms |-> 0]

handle_apiversions(header) ==
    [error_code |-> IF header.request_api_version >= 0
                       /\ header.request_api_version <= 4
                    THEN NoError ELSE UnsupportedVersion,
     api_keys |-> << ApiKeys(ApiKeyFetch, 0, 16),
                     ApiKeys(ApiKeyApiVersions, 0, 4),
                     ApiKeys(ApiKeyDescribeTopicPartitions, 0, 0) >>,
     throttle_time_ms |-> 0]

Contains(seq, x) == \E i \in 1..Len(seq) : seq[i] = x

\* A Topic pushed without the record's uuid.
FoundTopic_NoUuid(topic) ==
    [error_code |-> NoError, name |-> topic.topic_name,
     topic_id |-> UuidNew, is_internal |-> FALSE,
     partitions |-> <<>>, topic_authorized_operations |-> 0]

\* The Topic pushed for a matching TopicRecord.
FoundTopic(topic) ==
    [error_code |-> NoError, name |-> topic.topic_name,
     topic_id |-> topic.topic_uuid, is_internal |-> FALSE,
     partitions |-> <<>>, topic_authorized_operations |-> 0]

\* The Topic pushed when the pass appended none.
StubTopic(name) ==
    [error_code |-> UnknownTopicOrPartition, name |-> name,
     topic_id |-> UuidNew, is_internal |-> FALSE,
     partitions |-> <<>>, topic_authorized_operations |-> 0]

\* The Partition pushed for a PartitionRecord of the current topic.
RespPartition(partition) ==
    [error_code |-> NoError, partition_index |-> partition.partition_id,
     leader_id |-> partition.leader, leader_epoch |-> partition.leader_epoch,
     replica_nodes |-> partition.replicas, isr_nodes |-> partition.isr,
     eligible_leader_replicas |-> <<>>, last_known_elr |-> <<>>,
     offline_replicas |-> <<>>]

PushPartition(topics, p) ==
    [topics EXCEPT ![Len(topics)].partitions = Append(@, p)]

\* The loop of handle_describe_topic_partitions over metadata.records(),
\* with the response topics so far and the current topic id.  It panics
\* (topics.last_mut().unwrap()) on a PartitionRecord of the current topic id
\* when no Topic has been pushed.
RECURSIVE DescribePass(_, _, _, _)
DescribePass(reqTopics, recs, topics, topic_id) ==
    IF recs = <<>> THEN [panic |-> FALSE, topics |-> topics]
    ELSE LET r == Head(recs) IN
         IF r.type = "Topic" THEN
            IF Contains(reqTopics, r.body.topic_name)
            THEN DescribePass(reqTopics, Tail(recs),
                              Append(topics, FoundTopic(r.body)),
                              r.body.topic_uuid)
            ELSE DescribePass(reqTopics, Tail(recs), topics, topic_id)
         ELSE IF r.type = "Partition" THEN
            IF r.body.topic_id = topic_id
            THEN IF topics = <<>>
                 THEN [panic |-> TRUE, topics |-> topics]
                 ELSE DescribePass(reqTopics, Tail(recs),
                                   PushPartition(topics, RespPartition(r.body)),
                                   topic_id)
            ELSE DescribePass(reqTopics, Tail(recs), topics, topic_id)
         ELSE DescribePass(reqTopics, Tail(recs), topics, topic_id)

DescribeResponse(topics) ==
    [throttle_time_ms |-> 0, topics |-> topics, next_cursor |-> "none"]

\* handle_describe_topic_partitions on the request's topics and the batches
\* of the log.  panic: the handler panicked (while holding the mutex).
handle_describe_topic_partitions(reqTopics, bs) ==
    LET pass == DescribePass(reqTopics, records(bs), <<>>, UuidNew) IN
    IF pass.panic THEN [panic |-> TRUE, body |-> DescribeResponse(<<>>)]
    ELSE IF Len(pass.topics) = 0
    THEN IF Len(reqTopics) = 0   \* request.topics[0]: index out of bounds
         THEN [panic |-> TRUE, body |-> DescribeResponse(<<>>)]
         ELSE [panic |-> FALSE,
               body |-> DescribeResponse(<< StubTopic(reqTopics[1]) >>)]
    ELSE [panic |-> FALSE, body |-> DescribeResponse(pass.topics)]

(***************************************************************************)
(* Fetch.  message(topic_id) reads the partition-0 log file of the topic   *)
(* the metadata log names for topic_id.  A topic log file is whether it    *)
(* exists, whether it can be read, and its bytes.                          *)
(***************************************************************************)
TopicNameOf(recs, topic_id) ==
    LET idx == {i \in 1..Len(recs) :
                   recs[i].type = "Topic" /\ recs[i].body.topic_uuid = topic_id}
    IN  IF idx = {} THEN <<>>
        ELSE << recs[CHOOSE i \in idx : \A j \in idx : i <= j].body.topic_name >>

\* ClusterMetadataLog::message: some = FALSE is None.
message(bs, tlogs, topic_id) ==
    LET name == TopicNameOf(records(bs), topic_id) IN
    IF name = <<>> THEN [some |-> FALSE, bytes |-> <<>>]
    ELSE LET f == tlogs[name[1]] IN
         IF f.exists /\ f.readable /\ f.bytes # <<>>
         THEN [some |-> TRUE, bytes |-> f.bytes]
         ELSE [some |-> FALSE, bytes |-> <<>>]

FetchResponse(responses) ==
    [throttle_time_ms |-> 0, error_code |-> NoError, session_id |-> 0,
     responses |-> responses]

\* A handle_fetch that leaves the partition's error_code at NoError when
\* message() returned None.
handle_fetch_NoErrorCode(topic_id, message_data) ==
    FetchResponse(<< [topic_id |-> topic_id,
                      partitions |-> << [partition_index |-> 0,
                          error_code |-> NoError,
                          high_watermark |-> 0, last_stable_offset |-> 0,
                          log_start_offset |-> 0,
                          aborted_transactions |-> <<>>,
                          preferred_read_replica |-> 0,
                          records |-> message_data.bytes] >>] >>)

\* handle_fetch for a request with a first topic, given what message()
\* returned for it.
handle_fetch(topic_id, message_data) ==
    FetchResponse(<< [topic_id |-> topic_id,
                      partitions |-> << [partition_index |-> 0,
                          error_code |-> IF message_data.some
                                         THEN NoError ELSE UnknownTopic,
                          high_watermark |-> 0, last_stable_offset |-> 0,
                          log_start_offset |-> 0,
                          aborted_transactions |-> <<>>,
                          preferred_read_replica |-> 0,
                          records |-> message_data.bytes] >>] >>)

(***************************************************************************)
(* handle_request and send.                                                *)
(***************************************************************************)
handle_request_WrongField(request, resp_body) ==
    [header |-> [correlation_id |-> request.header.request_api_version,
                 include_tag_buffer |->
                     request.header.request_api_key # ApiKeyApiVersions],
     body |-> resp_body]

handle_request_AlwaysTagBuffer(request, resp_body) ==
    [header |-> [correlation_id |-> request.header.correlation_id,
                 include_tag_buffer |-> TRUE],
     body |-> resp_body]

\* The Response handle_request builds around the body its handler returned:
\* the request's correlation id, and include_tag_buffer cleared for
\* ApiVersions only.
handle_request(request, resp_body) ==
    [header |-> [correlation_id |-> request.header.correlation_id,
                 include_tag_buffer |->
                     request.header.request_api_key # ApiKeyApiVersions],
     body |-> resp_body]

\* send: the frame written to the stream, as the bytes before the body (the
\* correlation id, then the tag buffer if included) and the body.
send(response) ==
    [header |-> << response.header.correlation_id >>
                \o (IF response.header.include_tag_buffer
                    THEN encode_tag_buffer ELSE <<>>),
     body |-> response.body]

(***************************************************************************)
(* State.                                                                  *)
(***************************************************************************)
VARIABLES
    alive,       \* the process runs (a panic of the main thread ends it)
    file,        \* the metadata log file on disk
    topicLogs,   \* the topic log files on disk, by topic name
    loaded,      \* ClusterMetadataLog.loaded
    batches,     \* ClusterMetadataLog.batches
    lockHolder,  \* the thread holding the mutex; -1 when it is free
    poisoned,    \* a thread panicked while holding the mutex
    mainpc,      \* where the main thread is in its accept loop
    pending,     \* the connection main has accepted; 0 for an Err stream
    pc,          \* where each handler thread is in handle_stream
    request,     \* the Request each handler thread parsed last
    response,    \* the Response each handler thread built last
    inbox,       \* the frames read from each connection, in order
    outbox,      \* the frames written to each connection, in order
    stream,      \* each connection's stream: "open", or how it failed
    codecIn,     \* the codec call under study: the function and its input
    codecOut     \* what that call returned; result "none" before the call

vars == << alive, file, topicLogs, loaded, batches, lockHolder, poisoned,
           mainpc, pending, pc, request, response, inbox, outbox, stream,
           codecIn, codecOut >>

logVars == << loaded, batches >>
mainVars == << mainpc, pending >>
diskVars == << file, topicLogs >>
codecVars == << codecIn, codecOut >>
serverVars == << alive, file, topicLogs, loaded, batches, lockHolder, poisoned,
                 mainpc, pending, pc, request, response, inbox, outbox,
                 stream >>

NoCall == [op |-> "none", arg |-> <<>>]
NoResult == [result |-> "none", value |-> <<>>, rest |-> <<>>]

NoRequest == [result |-> "none",
              header |-> [request_api_key |-> 0, request_api_version |-> 0,
                          correlation_id |-> 0],
              topics |-> <<>>]

NoResponse == [header |-> [correlation_id |-> 0, include_tag_buffer |-> FALSE],
               body |-> <<>>]

(***************************************************************************)
(* The inputs: the files the disk may hold and the frames clients send.    *)
(***************************************************************************)
TopicLog(bytes) == [exists |-> TRUE, readable |-> TRUE, bytes |-> bytes]
MissingTopicLog == [exists |-> FALSE, readable |-> FALSE, bytes |-> <<>>]

TopicNames == {"a", "b", "c"}

TopicLogsOnDisk ==
    [n \in TopicNames |-> IF n = "a" THEN TopicLog(<<7, 9>>) ELSE MissingTopicLog]

LogA == FileOf(<< RawBatch(<< RawFeatureLevel, RawTopic("a", "u1") >>),
                  RawBatch(<< RawPartition(0, "u1"), RawPartition(1, "u1") >>) >>)
LogB == FileOf(<< RawBatch(<< RawTopic("b", "u2"), RawPartition(0, "u2") >>) >>)
MissingFile == [open |-> FALSE, readable |-> FALSE, batches |-> <<>>]
UnreadableFile == [open |-> TRUE, readable |-> FALSE, batches |-> <<>>]
TruncatedFile ==
    FileOf(<< RawBatch(<< RawTopic("a", "u1") >>),
              [hdr_ok |-> FALSE, records |-> <<>>] >>)
UnknownRecordFile ==
    FileOf(<< RawBatch(<< RawTopic("a", "u1"),
                          [ok |-> TRUE, rtype |-> 5, body |-> [name |-> "x", feature_level |-> 0]] >>) >>)

Files == {LogA, LogB, MissingFile, UnreadableFile, TruncatedFile,
          UnknownRecordFile}

ApiVersionsBody ==
    [client_software_name |-> "kafka-cli", client_software_version |-> "0.1"]

CorrIds == {1, 2}

\* The frames a client sends under Spec.
Frames ==
    {Frame(ApiKeyDescribeTopicPartitions, 0, cid, CompactArray(<<"a">>)) :
              cid \in CorrIds}
    \cup {Frame(ApiKeyFetch, 16, 2, CompactArray(<<"u1">>)),
          Frame(ApiKeyFetch, 16, 1, CompactArray(<<>>)),
          Frame(ApiKeyApiVersions, 4, 1, ApiVersionsBody),
          Frame(ApiKeyDescribeTopicPartitions, 0, 1, CompactArray(<<>>)),
          Frame(0, 0, 1, ApiVersionsBody)}

Last(seq) == seq[Len(seq)]

(***************************************************************************)
(* The main thread: main's accept loop.                                    *)
(***************************************************************************)
\* listener.incoming() yields the next connection.  Connections are numbered
\* in the order they are accepted.
Incoming(c) ==
    /\ alive /\ mainpc = "accept"
    /\ pc[c] = "idle" /\ \A d \in 1..(c - 1) : pc[d] # "idle"
    /\ pending' = c /\ mainpc' = "lock"
    /\ UNCHANGED << alive, diskVars, codecVars, stream, logVars, lockHolder,
                    poisoned, pc, request, response, inbox, outbox >>

\* listener.incoming() yields an Err: the loop body still runs load().
IncomingErr ==
    /\ alive /\ mainpc = "accept"
    /\ \E c \in DOMAIN pc : pc[c] = "idle"
    /\ pending' = 0 /\ mainpc' = "lock"
    /\ UNCHANGED << alive, diskVars, codecVars, stream, logVars, lockHolder,
                    poisoned, pc, request, response, inbox, outbox >>

\* metadata_log.lock().unwrap(): blocks while the mutex is held; panics when
\* it is poisoned, which ends the process.
MainLock ==
    /\ alive /\ mainpc = "lock" /\ lockHolder = -1
    /\ IF poisoned
       THEN alive' = FALSE /\ mainpc' = "panicked" /\ UNCHANGED lockHolder
       ELSE lockHolder' = 0 /\ mainpc' = "load" /\ UNCHANGED alive
    /\ UNCHANGED << diskVars, codecVars, stream, logVars, poisoned, pending,
                    pc, request, response, inbox, outbox >>

\* .load().expect(...): a failed load panics the main thread with the guard
\* alive, which ends the process; otherwise the guard is dropped.
MainLoad ==
    /\ alive /\ mainpc = "load"
    /\ LET r == load(loaded, batches, file) IN
       /\ loaded' = r.loaded /\ batches' = r.batches
       /\ lockHolder' = -1
       /\ IF r.result = "ok"
          THEN mainpc' = "spawn" /\ UNCHANGED << alive, poisoned >>
          ELSE mainpc' = "panicked" /\ alive' = FALSE /\ poisoned' = TRUE
    /\ UNCHANGED << diskVars, codecVars, stream, pending, pc, request,
                    response, inbox, outbox >>

\* match stream: a handler thread is spawned for an Ok stream.
Spawn ==
    /\ alive /\ mainpc = "spawn"
    /\ mainpc' = "accept"
    /\ pc' = IF pending = 0 THEN pc ELSE [pc EXCEPT ![pending] = "read"]
    /\ UNCHANGED << alive, diskVars, codecVars, stream, logVars, lockHolder,
                    poisoned, pending, request, response, inbox, outbox >>

\* The upstream controller rewrites the metadata log file.  Only load()
\* reads the file, so a rewrite at any moment is a rewrite before the next
\* load(): it is taken when main is about to call load().
FileChange(f) ==
    /\ alive /\ f # file
    /\ mainpc = "load"
    /\ file' = f
    /\ UNCHANGED << alive, topicLogs, codecVars, stream, logVars, lockHolder,
                    poisoned, mainVars, pc, request, response, inbox,
                    outbox >>

(***************************************************************************)
(* A handler thread: handle_stream on connection c.                        *)
(***************************************************************************)
\* The frames read so far on the connections 1..n.
RECURSIVE FramesRead(_)
FramesRead(n) == IF n = 0 THEN 0 ELSE Len(inbox[n]) + FramesRead(n - 1)

\* The two read_exact calls: one whole frame f is read.  `limit` bounds the
\* frames the clients send in all.
ReadFrame(c, f, limit) ==
    /\ alive /\ pc[c] = "read"
    /\ FramesRead(Cardinality(DOMAIN inbox)) < limit
    /\ inbox' = [inbox EXCEPT ![c] = Append(@, f)]
    /\ pc' = [pc EXCEPT ![c] = "parse"]
    /\ UNCHANGED << alive, diskVars, codecVars, stream, logVars, lockHolder,
                    poisoned, mainVars, request, response, outbox >>

\* A handle_stream that panics on every error of the first read_exact.
ClientClose_Panic(c) ==
    /\ alive /\ pc[c] = "read"
    /\ stream' = [stream EXCEPT ![c] = "eof"]
    /\ pc' = [pc EXCEPT ![c] = "panicked"]
    /\ UNCHANGED << alive, diskVars, codecVars, logVars, lockHolder, poisoned,
                    mainVars, request, response, inbox, outbox >>

\* The peer closed at a frame boundary: UnexpectedEof, break.
ClientClose(c) ==
    /\ alive /\ pc[c] = "read"
    /\ stream' = [stream EXCEPT ![c] = "eof"]
    /\ pc' = [pc EXCEPT ![c] = "closed"]
    /\ UNCHANGED << alive, diskVars, codecVars, logVars, lockHolder, poisoned,
                    mainVars, request, response, inbox, outbox >>

\* The ways reading a frame fails other than EOF at a frame boundary.
ReadFaults == {"eof_in_size", "read_error", "negative_size", "eof_in_body"}

\* Reading a frame fails.  EOF inside the size prefix is UnexpectedEof of the
\* first read_exact as well: break.  Any other error of it panics; a
\* negative size panics in try_into().unwrap(); EOF or an error inside the
\* body panics in read_exact(&mut message).unwrap().
ReadFault(c, kind) ==
    /\ alive /\ pc[c] = "read"
    /\ stream' = [stream EXCEPT ![c] = kind]
    /\ pc' = [pc EXCEPT ![c] = IF kind = "eof_in_size"
                               THEN "closed" ELSE "panicked"]
    /\ UNCHANGED << alive, diskVars, codecVars, logVars, lockHolder, poisoned,
                    mainVars, request, response, inbox, outbox >>

\* send: a write_all fails and its unwrap panics; the response frame is not
\* written.
SendFault(c) ==
    /\ alive /\ pc[c] = "send"
    /\ stream' = [stream EXCEPT ![c] = "write_error"]
    /\ pc' = [pc EXCEPT ![c] = "panicked"]
    /\ UNCHANGED << alive, diskVars, codecVars, logVars, lockHolder, poisoned,
                    mainVars, request, response, inbox, outbox >>

\* parse_request(&message): a panic ends the thread.
ParseRequest(c) ==
    /\ alive /\ pc[c] = "parse"
    /\ LET r == parse_request(Last(inbox[c])) IN
       IF r.result = "ok"
       THEN request' = [request EXCEPT ![c] = r]
            /\ pc' = [pc EXCEPT ![c] = "handle"]
       ELSE pc' = [pc EXCEPT ![c] = "panicked"] /\ UNCHANGED request
    /\ UNCHANGED << alive, diskVars, codecVars, stream, logVars, lockHolder,
                    poisoned, mainVars, response, inbox, outbox >>

\* handle_request, ApiVersions arm.
HandleApiVersions(c) ==
    /\ alive /\ pc[c] = "handle"
    /\ request[c].header.request_api_key = ApiKeyApiVersions
    /\ response' = [response EXCEPT ![c] =
           handle_request(request[c], handle_apiversions(request[c].header))]
    /\ pc' = [pc EXCEPT ![c] = "send"]
    /\ UNCHANGED << alive, diskVars, codecVars, stream, logVars, lockHolder,
                    poisoned, mainVars, request, inbox, outbox >>

\* A handler that goes on to read the log without waiting for the mutex.
LockDescribe_NoWait(c) ==
    /\ alive /\ pc[c] = "handle"
    /\ request[c].header.request_api_key = ApiKeyDescribeTopicPartitions
    /\ IF poisoned
       THEN pc' = [pc EXCEPT ![c] = "panicked"] /\ UNCHANGED lockHolder
       ELSE pc' = [pc EXCEPT ![c] = "describe"] /\ lockHolder' = c
    /\ UNCHANGED << alive, diskVars, codecVars, stream, logVars, poisoned,
                    mainVars, request, response, inbox, outbox >>

\* handle_describe_topic_partitions: metadata_log.lock().unwrap().
LockDescribe(c) ==
    /\ alive /\ pc[c] = "handle"
    /\ request[c].header.request_api_key = ApiKeyDescribeTopicPartitions
    /\ lockHolder = -1
    /\ IF poisoned
       THEN pc' = [pc EXCEPT ![c] = "panicked"] /\ UNCHANGED lockHolder
       ELSE pc' = [pc EXCEPT ![c] = "describe"] /\ lockHolder' = c
    /\ UNCHANGED << alive, diskVars, codecVars, stream, logVars, poisoned,
                    mainVars, request, response, inbox, outbox >>

\* A handler that returns with the guard still held.
Describe_KeepLock(c) ==
    /\ alive /\ pc[c] = "describe"
    /\ LET r == handle_describe_topic_partitions(request[c].topics, batches) IN
       IF r.panic
       THEN /\ pc' = [pc EXCEPT ![c] = "panicked"]
            /\ poisoned' = TRUE /\ lockHolder' = -1
            /\ UNCHANGED response
       ELSE /\ response' = [response EXCEPT ![c] = handle_request(request[c], r.body)]
            /\ pc' = [pc EXCEPT ![c] = "send"]
            /\ UNCHANGED << poisoned, lockHolder >>
    /\ UNCHANGED << alive, diskVars, codecVars, stream, logVars, mainVars,
                    request, inbox, outbox >>

\* handle_describe_topic_partitions with the guard held: the pass over the
\* records and the return, which drops the guard; a panic poisons the mutex
\* and ends the thread.
Describe(c) ==
    /\ alive /\ pc[c] = "describe"
    /\ LET r == handle_describe_topic_partitions(request[c].topics, batches) IN
       IF r.panic
       THEN /\ pc' = [pc EXCEPT ![c] = "panicked"]
            /\ poisoned' = TRUE
            /\ UNCHANGED response
       ELSE /\ response' = [response EXCEPT ![c] = handle_request(request[c], r.body)]
            /\ pc' = [pc EXCEPT ![c] = "send"]
            /\ UNCHANGED poisoned
    /\ lockHolder' = -1
    /\ UNCHANGED << alive, diskVars, codecVars, stream, logVars, mainVars,
                    request, inbox, outbox >>

\* handle_fetch, match request.topics.first(): None answers with no
\* responses and takes no lock; Some(topic) goes on to
\* metadata_log.lock().unwrap().
LockFetch(c) ==
    /\ alive /\ pc[c] = "handle"
    /\ request[c].header.request_api_key = ApiKeyFetch
    /\ IF request[c].topics = <<>>
       THEN /\ response' = [response EXCEPT ![c] =
                               handle_request(request[c], FetchResponse(<<>>))]
            /\ pc' = [pc EXCEPT ![c] = "send"]
            /\ UNCHANGED lockHolder
       ELSE /\ lockHolder = -1
            /\ IF poisoned
               THEN pc' = [pc EXCEPT ![c] = "panicked"] /\ UNCHANGED lockHolder
               ELSE pc' = [pc EXCEPT ![c] = "fetch"] /\ lockHolder' = c
            /\ UNCHANGED response
    /\ UNCHANGED << alive, diskVars, codecVars, stream, logVars, poisoned,
                    mainVars, request, inbox, outbox >>

\* handle_fetch with the guard held: message() for the first topic; the
\* guard is dropped at the end of the statement.
Fetch(c) ==
    /\ alive /\ pc[c] = "fetch"
    /\ LET topic_id == request[c].topics[1]
           data == message(batches, topicLogs, topic_id) IN
       response' = [response EXCEPT ![c] =
                       handle_request(request[c], handle_fetch(topic_id, data))]
    /\ pc' = [pc EXCEPT ![c] = "send"]
    /\ lockHolder' = -1
    /\ UNCHANGED << alive, diskVars, codecVars, stream, logVars, poisoned,
                    mainVars, request, inbox, outbox >>

\* A loop that goes back to reading without writing the response.
Send_NotWritten(c) ==
    /\ alive /\ pc[c] = "send"
    /\ pc' = [pc EXCEPT ![c] = "read"]
    /\ UNCHANGED << alive, diskVars, codecVars, stream, logVars, lockHolder,
                    poisoned, mainVars, request, response, inbox, outbox >>

\* send(&mut stream, &response): the frame is written, and the loop goes
\* back to reading.
Send(c) ==
    /\ alive /\ pc[c] = "send"
    /\ outbox' = [outbox EXCEPT ![c] = Append(@, send(response[c]))]
    /\ pc' = [pc EXCEPT ![c] = "read"]
    /\ UNCHANGED << alive, diskVars, codecVars, stream, logVars, lockHolder,
                    poisoned, mainVars, request, response, inbox >>

(***************************************************************************)
(* Spec: the server with NConn connections served concurrently, the        *)
(* clients sending up to MaxReq frames in all, over a metadata log file    *)
(* that parses.                                                            *)
(***************************************************************************)
ServerInit(conns, files, disks) ==
    /\ alive = TRUE
    /\ file \in files
    /\ topicLogs \in disks
    /\ loaded = FALSE /\ batches = <<>>
    /\ lockHolder = -1 /\ poisoned = FALSE
    /\ mainpc = "accept" /\ pending = 0
    /\ pc = [c \in conns |-> "idle"]
    /\ request = [c \in conns |-> NoRequest]
    /\ response = [c \in conns |-> NoResponse]
    /\ inbox = [c \in conns |-> <<>>]
    /\ outbox = [c \in conns |-> <<>>]
    /\ stream = [c \in conns |-> "open"]

InitDisk(conns, files, disks) ==
    /\ ServerInit(conns, files, disks)
    /\ codecIn = NoCall /\ codecOut = NoResult

InitOver(conns, files) == InitDisk(conns, files, {TopicLogsOnDisk})

GoodFiles == {LogA, LogB}

Init == InitOver(Conns, GoodFiles)

Next ==
    \/ \E c \in Conns : Incoming(c)
    \/ IncomingErr
    \/ MainLock
    \/ MainLoad
    \/ Spawn
    \/ \E c \in Conns, f \in Frames : ReadFrame(c, f, MaxReq)
    \/ \E c \in Conns : ClientClose(c)
    \/ \E c \in Conns : ParseRequest(c)
    \/ \E c \in Conns : HandleApiVersions(c)
    \/ \E c \in Conns : LockDescribe(c)
    \/ \E c \in Conns : Describe(c)
    \/ \E c \in Conns : LockFetch(c)
    \/ \E c \in Conns : Fetch(c)
    \/ \E c \in Conns : Send(c)

Spec == Init /\ [][Next]_vars

(***************************************************************************)
(* SpecLoad: the same server over every kind of metadata log file (one     *)
(* that parses, is missing, cannot be read, is cut short, or holds a       *)
(* record of an unknown type), rewritten on disk while the server runs.    *)
(***************************************************************************)
LoadFrames ==
    {Frame(ApiKeyApiVersions, 4, 1, ApiVersionsBody),
     Frame(ApiKeyDescribeTopicPartitions, 0, 1, CompactArray(<<"a">>)),
     Frame(ApiKeyFetch, 16, 2, CompactArray(<<"u1">>))}

InitLoad == InitOver(Conns, Files)

NextLoad ==
    \/ \E c \in Conns : Incoming(c)
    \/ IncomingErr
    \/ MainLock
    \/ MainLoad
    \/ Spawn
    \/ \E c \in Conns, f \in LoadFrames : ReadFrame(c, f, MaxReq)
    \/ \E c \in Conns : ClientClose(c)
    \/ \E c \in Conns : ParseRequest(c)
    \/ \E c \in Conns : HandleApiVersions(c)
    \/ \E c \in Conns : LockDescribe(c)
    \/ \E c \in Conns : Describe(c)
    \/ \E c \in Conns : LockFetch(c)
    \/ \E c \in Conns : Fetch(c)
    \/ \E c \in Conns : Send(c)
    \/ \E f \in Files : FileChange(f)

SpecLoad == InitLoad /\ [][NextLoad]_vars

(***************************************************************************)
(* SpecApi: one connection and one request, the handlers being functions   *)
(* of the request and the log: the metadata log file is any sequence of up *)
(* to MaxRecords records, and the request any ApiVersions version, any     *)
(* DescribeTopicPartitions topics list of up to MaxTopics names, or a      *)
(* Fetch.                                                                  *)
(***************************************************************************)
SeqsUpTo(S, n) == UNION {[1..k -> S] : k \in 0..n}

RecordUniverse ==
    {RawTopic("a", "u1"), RawTopic("b", "u2"), RawTopic("a", UuidNew),
     RawPartition(0, "u1"), RawPartition(1, "u1"), RawPartition(0, "u2"),
     RawPartition(0, UuidNew), RawFeatureLevel}

ApiFiles == {FileOf(<< RawBatch(recs) >>) : recs \in SeqsUpTo(RecordUniverse, MaxRecords)}

ApiFrames ==
    {Frame(ApiKeyApiVersions, v, 1, ApiVersionsBody) : v \in -1..MaxVersion}
    \cup {Frame(ApiKeyDescribeTopicPartitions, 0, 2, CompactArray(names)) :
              names \in SeqsUpTo(TopicNames, MaxTopics)}
    \cup {Frame(ApiKeyDescribeTopicPartitions, 0, 2, [len |-> 0, items |-> <<>>])}
    \cup {Frame(ApiKeyFetch, 16, 1, CompactArray(ids)) :
              ids \in {<<>>, <<"u1">>, <<"u2">>, <<"u9">>, <<"u2", "u1">>}}

OneConn == {1}

InitApi == InitOver(OneConn, ApiFiles)

NextApi ==
    \/ \E c \in OneConn : Incoming(c)
    \/ IncomingErr
    \/ MainLock
    \/ MainLoad
    \/ Spawn
    \/ \E c \in OneConn, f \in ApiFrames : ReadFrame(c, f, 1)
    \/ \E c \in OneConn : ClientClose(c)
    \/ \E c \in OneConn : ParseRequest(c)
    \/ \E c \in OneConn : HandleApiVersions(c)
    \/ \E c \in OneConn : LockDescribe(c)
    \/ \E c \in OneConn : Describe(c)
    \/ \E c \in OneConn : LockFetch(c)
    \/ \E c \in OneConn : Fetch(c)
    \/ \E c \in OneConn : Send(c)

SpecApi == InitApi /\ [][NextApi]_vars

(***************************************************************************)
(* SpecFetch: one connection and one Fetch request, over every state of    *)
(* the topic log files: readable with bytes, readable and empty, missing,  *)
(* or present and unreadable.                                              *)
(***************************************************************************)
UnreadableTopicLog == [exists |-> TRUE, readable |-> FALSE, bytes |-> <<>>]

TopicLogStates ==
    {TopicLog(<<7, 9>>), TopicLog(<<>>), MissingTopicLog, UnreadableTopicLog}

FetchDisks == [TopicNames -> TopicLogStates]

FetchFrames ==
    {Frame(ApiKeyFetch, 16, 1, CompactArray(ids)) :
         ids \in {<<>>, <<"u1">>, <<"u2">>, <<"u9">>, <<"u2", "u1">>}}

InitFetch == InitDisk(OneConn, GoodFiles, FetchDisks)

NextFetch ==
    \/ \E c \in OneConn : Incoming(c)
    \/ IncomingErr
    \/ MainLock
    \/ MainLoad
    \/ Spawn
    \/ \E c \in OneConn, f \in FetchFrames : ReadFrame(c, f, 1)
    \/ \E c \in OneConn : ClientClose(c)
    \/ \E c \in OneConn : ParseRequest(c)
    \/ \E c \in OneConn : LockFetch(c)
    \/ \E c \in OneConn : Fetch(c)
    \/ \E c \in OneConn : Send(c)

SpecFetch == InitFetch /\ [][NextFetch]_vars

(***************************************************************************)
(* SpecStream: the server with NConn connections whose streams may fail:   *)
(* the peer closes at a frame boundary or inside a frame, announces a      *)
(* negative size, or a read or a write returns an error.                   *)
(***************************************************************************)
StreamFrames ==
    {Frame(ApiKeyApiVersions, 4, 1, ApiVersionsBody),
     Frame(ApiKeyDescribeTopicPartitions, 0, 2, CompactArray(<<"a">>))}

InitStream == InitOver(Conns, {LogA})

NextStream ==
    \/ \E c \in Conns : Incoming(c)
    \/ IncomingErr
    \/ MainLock
    \/ MainLoad
    \/ Spawn
    \/ \E c \in Conns, f \in StreamFrames : ReadFrame(c, f, MaxReq)
    \/ \E c \in Conns : ClientClose(c)
    \/ \E c \in Conns, kind \in ReadFaults : ReadFault(c, kind)
    \/ \E c \in Conns : ParseRequest(c)
    \/ \E c \in Conns : HandleApiVersions(c)
    \/ \E c \in Conns : LockDescribe(c)
    \/ \E c \in Conns : Describe(c)
    \/ \E c \in Conns : Send(c)
    \/ \E c \in Conns : SendFault(c)

SpecStream == InitStream /\ [][NextStream]_vars

(***************************************************************************)
(* SpecCodec: one call of a function of the primitives codec on an input   *)
(* drawn from a bounded set, the server standing still.                    *)
(***************************************************************************)
\* Byte values around the masks: 0x00 0x01 0x0a 0x3f 0x40 0x7f 0x80 0x96
\* 0xbf 0xc0 0xff.
VarintBytes == {0, 1, 10, 63, 64, 127, 128, 150, 191, 192, 255}

\* Every byte string of 1..MaxVarintLen of those bytes, and the long ones:
\* k bytes with the high bit (k up to MaxCont + 1), then a terminating byte
\* or the end of the input.  The long ones carry zero in all groups but the
\* first, so that their value stays small.
ShortVarints == UNION {[1..k -> VarintBytes] : k \in 1..MaxVarintLen}

LongVarints ==
    {<< first >> \o [i \in 1..k |-> 128] \o last :
         first \in {128, 150, 255}, k \in 0..MaxCont, last \in {<<0>>, <<>>}}

VarintInputs == ShortVarints \cup LongVarints

\* parse_unsigned_varlong(bytes).
VarintDecode ==
    /\ codecIn.op = "varint_decode" /\ codecOut = NoResult
    /\ codecOut' = parse_unsigned_varlong(codecIn.arg)
    /\ UNCHANGED << serverVars, codecIn >>

\* encode_varint(parse_unsigned_varlong(bytes)?).
VarintRoundTrip ==
    /\ codecIn.op = "varint_roundtrip" /\ codecOut = NoResult
    /\ LET d == parse_unsigned_varlong(codecIn.arg) IN
       codecOut' = IF d.result = "ok"
                   THEN [result |-> "ok", value |-> encode_varint(d.value),
                         rest |-> d.rest]
                   ELSE d
    /\ UNCHANGED << serverVars, codecIn >>

\* The values the round trips are tried on.
Int8s == {-128, -1, 0, 1, 127}
Int16s == {-32768, -256, -1, 0, 255, 256, 32767}
Int32s == {-1073741824, -65536, -1, 0, 1, 65535, 16777216, 1073741823}

Uuids == {[i \in 1..16 |-> 0], [i \in 1..16 |-> i], [i \in 1..16 |-> 255]}

\* Non-empty strings: "a".."ba" and the like, and a two-byte character.
Strings ==
    UNION {[1..k -> {97, 98}] : k \in 1..MaxStrLen} \cup {<<195, 169>>}

Arrays == UNION {[1..k -> {-1, 0, 258}] : k \in 0..MaxArrayLen}

\* Result<T> after a round trip, the value in the form of the input.
RoundTrip(d, value) ==
    [result |-> d.result, value |-> IF d.result = "ok" THEN value ELSE <<>>,
     rest |-> d.rest]

\* parse_bool(encode_bool(x)); the input is <<1>> for true, <<0>> for false.
BoolRoundTrip ==
    /\ codecIn.op = "bool" /\ codecOut = NoResult
    /\ LET d == parse_bool(encode_bool(codecIn.arg[1] = 1)) IN
       codecOut' = RoundTrip(d, IF d.value THEN <<1>> ELSE <<0>>)
    /\ UNCHANGED << serverVars, codecIn >>

\* parse_intN(x.encode()); the input is << x >>.
IntRoundTrip ==
    /\ codecIn.op \in {"int8", "int16", "int32", "int64"} /\ codecOut = NoResult
    /\ LET x == codecIn.arg[1]
           d == IF codecIn.op = "int8" THEN parse_int8(encode_int8(x))
                ELSE IF codecIn.op = "int16" THEN parse_int16(encode_int16(x))
                ELSE IF codecIn.op = "int32" THEN parse_int32(encode_int32(x))
                ELSE parse_int64(encode_int64(x))
       IN  codecOut' = RoundTrip(d, << d.value >>)
    /\ UNCHANGED << serverVars, codecIn >>

\* Uuid::parse(uuid.encode()).
UuidRoundTrip ==
    /\ codecIn.op = "uuid" /\ codecOut = NoResult
    /\ LET d == Uuid_parse(Uuid_encode(codecIn.arg)) IN
       codecOut' = RoundTrip(d, d.value)
    /\ UNCHANGED << serverVars, codecIn >>

\* parse_compact_string(encode_compact_string(s)).
StringRoundTrip ==
    /\ codecIn.op = "compact_string" /\ codecOut = NoResult
    /\ LET d == parse_compact_string(encode_compact_string(codecIn.arg)) IN
       codecOut' = RoundTrip(d, d.value)
    /\ UNCHANGED << serverVars, codecIn >>

\* Some(parse_compact_string(encode_compact_nullable_string(s))), the way
\* Topic::parse reads a name; the input is <<0>> for None and <<1>> \o s for
\* Some(s).
NullableStringRoundTrip ==
    /\ codecIn.op = "compact_nullable_string" /\ codecOut = NoResult
    /\ LET string == IF codecIn.arg[1] = 0 THEN <<>>
                     ELSE << Drop(codecIn.arg, 1) >>
           d == parse_compact_string(encode_compact_nullable_string(string))
       IN  codecOut' = RoundTrip(d, <<1>> \o d.value)
    /\ UNCHANGED << serverVars, codecIn >>

\* parse_compact_array::<i32>(encode_compact_array(array)).
ArrayRoundTrip(build) ==
    /\ codecIn.op = "compact_array" /\ codecOut = NoResult
    /\ LET d == parse_compact_array_int32(
                    encode_compact_array_int32(codecIn.arg), build) IN
       codecOut' = RoundTrip(d, d.value)
    /\ UNCHANGED << serverVars, codecIn >>

\* Compact arrays of i32 on the wire: the length byte L and the bytes after.
Int32ArrayBytes ==
    {<<l>> \o EncodeInt32Items(items) \o tail :
         l \in 0..(MaxArrayLen + 1), items \in Arrays, tail \in {<<>>, <<9>>}}

\* Compact arrays of compact strings with tag buffers on the wire.
StringArrayBytes ==
    {<<0>>, <<0, 2, 97, 0>>, <<1>>, <<1, 2, 97, 0>>, <<2, 2, 97, 0>>,
     <<2, 2, 97>>, <<3, 2, 97, 0, 3, 98, 97, 0>>, <<3, 2, 97, 0>>}

\* parse_compact_array::<i32>(bytes).
ArrayDecode(build) ==
    /\ codecIn.op = "array_decode" /\ codecOut = NoResult
    /\ codecOut' = parse_compact_array_int32(codecIn.arg, build)
    /\ UNCHANGED << serverVars, codecIn >>

\* parse_compact_array_with_tag_buffer::<CompactString>(bytes).
StringArrayDecode(build) ==
    /\ codecIn.op = "string_array_decode" /\ codecOut = NoResult
    /\ codecOut' = parse_compact_array_with_tag_buffer(codecIn.arg, build)
    /\ UNCHANGED << serverVars, codecIn >>

Call(o, b) == [op |-> o, arg |-> b]

CodecCalls ==
    {Call(o, b) : o \in {"varint_decode", "varint_roundtrip"},
                  b \in VarintInputs}
    \cup {Call("bool", <<b>>) : b \in {0, 1}}
    \cup {Call("int8", <<x>>) : x \in Int8s}
    \cup {Call("int16", <<x>>) : x \in Int16s}
    \cup {Call(o, <<x>>) : o \in {"int32", "int64"}, x \in Int32s}
    \cup {Call("uuid", u) : u \in Uuids}
    \cup {Call("compact_string", str) : str \in Strings}
    \cup {Call("compact_nullable_string", <<0>>)}
    \cup {Call("compact_nullable_string", <<1>> \o str) : str \in Strings}
    \cup {Call("compact_array", a) : a \in Arrays}
    \cup {Call("array_decode", b) : b \in Int32ArrayBytes}
    \cup {Call("string_array_decode", b) : b \in StringArrayBytes}

InitCodec ==
    /\ ServerInit(OneConn, {LogA}, {TopicLogsOnDisk})
    /\ codecIn \in CodecCalls /\ codecOut = NoResult

NextCodec ==
    \/ VarintDecode
    \/ VarintRoundTrip
    \/ BoolRoundTrip
    \/ IntRoundTrip
    \/ UuidRoundTrip
    \/ StringRoundTrip
    \/ NullableStringRoundTrip
    \/ \E build \in Builds : ArrayRoundTrip(build)
    \/ \E build \in Builds : ArrayDecode(build)
    \/ \E build \in Builds : StringArrayDecode(build)

SpecCodec == InitCodec /\ [][NextCodec]_vars

(***************************************************************************)
(* Properties.                                                             *)
(***************************************************************************)
Threads == DOMAIN pc

IsApiVersionsBody(body) == "api_keys" \in DOMAIN body
IsDescribeBody(body) == "topics" \in DOMAIN body
IsFetchBody(body) == "responses" \in DOMAIN body

\* The written frame `out` is a response to the frame `in`.
Answers(out, in) ==
    /\ out.header[1] = in.correlation_id
    /\ in.api_key = 18 => IsApiVersionsBody(out.body)
    /\ in.api_key = 75 => IsDescribeBody(out.body)
    /\ in.api_key = 1 => IsFetchBody(out.body)

\* C1: every response written on a connection carries the correlation id of
\* the request read on that same connection that it answers, whatever the
\* other connections are doing.
C1_CorrelationIdEchoed ==
    \A c \in Threads : \A k \in 1..Len(outbox[c]) :
        outbox[c][k].header[1] = inbox[c][k].correlation_id

\* Two connections with requests of different correlation ids in flight at
\* once: the second has been answered with its own id while the first holds
\* its DescribeTopicPartitions response, not yet written, with its own.
C1_Witness ==
    /\ {1, 2} \subseteq Threads
    /\ pc[1] = "send" /\ inbox[1][1].api_key = 75
    /\ response[1].header.correlation_id = inbox[1][1].correlation_id
    /\ Len(outbox[2]) = 1
    /\ outbox[2][1].header[1] = inbox[2][1].correlation_id
    /\ inbox[2][1].correlation_id # inbox[1][1].correlation_id

\* C2: on each connection a frame is read only when every frame read before
\* has been answered, at most one response is outstanding, and the k-th
\* frame written answers the k-th frame read.
C2_InOrder ==
    \A c \in Threads :
        /\ Len(outbox[c]) <= Len(inbox[c])
        /\ Len(inbox[c]) <= Len(outbox[c]) + 1
        /\ pc[c] \in {"idle", "read", "closed"} => Len(inbox[c]) = Len(outbox[c])
        /\ pc[c] \in {"parse", "handle", "describe", "fetch", "send"}
              => Len(inbox[c]) = Len(outbox[c]) + 1
        /\ \A k \in 1..Len(outbox[c]) : Answers(outbox[c][k], inbox[c][k])

\* A connection on which two requests of different kinds were answered.
C2_Witness ==
    \E c \in Threads :
        /\ Len(outbox[c]) = 2 /\ pc[c] = "read"
        /\ inbox[c][1].api_key # inbox[c][2].api_key

\* The file parses as a whole: it opens, reads, and every batch and record
\* of it parses.
FileParses(f) ==
    f.open /\ f.readable /\ ParseBatches(f.batches, <<>>).result = "ok"

\* C3: the log never goes from Loaded to Unloaded; it becomes Loaded only by
\* a load() of a file that parses as a whole, with the batches of that file;
\* a load() of any other file leaves it Unloaded with its batches
\* unchanged, and the connection being accepted is never served (the
\* process ends).
C3_LoadTransition ==
    [][ /\ loaded => loaded'
        /\ (~loaded /\ loaded') =>
              /\ mainpc = "load" /\ FileParses(file)
              /\ batches' = ParseBatches(file.batches, <<>>).batches
        /\ (mainpc = "load" /\ ~loaded /\ mainpc' # "load" /\ ~FileParses(file)) =>
              /\ ~loaded' /\ batches' = batches
              /\ ~alive' /\ mainpc' = "panicked"
              /\ \A c \in Threads : pc'[c] = "idle" /\ outbox'[c] = <<>>
      ]_vars

\* A load() of a file holding a record of an unknown type has failed.
C3_Witness ==
    /\ mainpc = "panicked" /\ ~loaded /\ batches = <<>>
    /\ file = UnknownRecordFile

\* C4: once the log is Loaded, no step (a later load(), a handler) changes
\* `loaded` or the batch list.
C4_LoadedImmutable ==
    [][ loaded => (loaded' /\ batches' = batches) ]_vars

\* The second connection's load() has returned while the file on disk
\* parses to other batches than the loaded ones.
C4_Witness ==
    /\ loaded /\ mainpc = "spawn" /\ pending = 2
    /\ FileParses(file)
    /\ batches # ParseBatches(file.batches, <<>>).batches

\* C5: a handler thread holds the mutex only inside the
\* DescribeTopicPartitions and Fetch handlers, never while it reads a frame
\* or writes one; the main thread holds it only around load(), not while it
\* accepts.
C5_NoLockAcrossNetworkIO ==
    /\ \A c \in Threads : lockHolder = c => pc[c] \in {"describe", "fetch"}
    /\ lockHolder = 0 => mainpc = "load"

\* A handler is about to write its DescribeTopicPartitions response while
\* another handler holds the mutex.
C5_Witness ==
    /\ pc[1] = "send" /\ request[1].header.request_api_key = 75
    /\ lockHolder = 2

\* C6: in every response frame the correlation id is followed by the
\* one-byte tag buffer if the request's api key is 75 or 1, and by the body
\* directly if it is 18.
C6_ResponseHeaderRule ==
    \A c \in Threads : \A k \in 1..Len(outbox[c]) :
        LET key == inbox[c][k].api_key
            hdr == outbox[c][k].header
        IN  /\ key \in {75, 1} <=> (Len(hdr) = 2 /\ hdr[2] = 0)
            /\ key = 18 <=> Len(hdr) = 1

\* A connection that was sent an ApiVersions response and a response with
\* the tag buffer.
C6_Witness ==
    \E c \in Threads :
        /\ Len(outbox[c]) = 2
        /\ inbox[c][1].api_key = 18 /\ inbox[c][2].api_key \in {75, 1}

AdvertisedApiKeys ==
    {[api_key |-> 1, min_version |-> 0, max_version |-> 16],
     [api_key |-> 18, min_version |-> 0, max_version |-> 4],
     [api_key |-> 75, min_version |-> 0, max_version |-> 0]}

Range(seq) == {seq[i] : i \in 1..Len(seq)}

\* C7: the ApiVersions handler answers error_code 0 exactly for the versions
\* 0..4 and 35 for every other one, negative ones included; either way it
\* advertises the three api keys with their version ranges and
\* throttle_time_ms 0, and it changes nothing of the log, the mutex or the
\* disk.
C7_ApiVersions ==
    [][ \A c \in Threads :
          (/\ pc[c] = "handle" /\ pc'[c] # "handle"
           /\ request[c].header.request_api_key = 18) =>
              LET v == request[c].header.request_api_version
                  body == response'[c].body
              IN  /\ pc'[c] = "send"
                  /\ IsApiVersionsBody(body)
                  /\ body.error_code = (IF v >= 0 /\ v <= 4 THEN 0 ELSE 35)
                  /\ Len(body.api_keys) = 3
                  /\ Range(body.api_keys) = AdvertisedApiKeys
                  /\ body.throttle_time_ms = 0
                  /\ UNCHANGED << loaded, batches, lockHolder, poisoned, file,
                                  topicLogs, alive >>
      ]_vars

\* An ApiVersions request of a negative version was answered with 35.
C7_Witness ==
    \E c \in Threads :
        /\ Len(outbox[c]) = 1
        /\ inbox[c][1].api_key = 18 /\ inbox[c][1].api_version < 0
        /\ outbox[c][1].body.error_code = 35

\* No TopicRecord of the log carries a requested name.
NoneFound(reqTopics, bs) ==
    \A i \in 1..Len(records(bs)) :
        records(bs)[i].type = "Topic"
            => ~Contains(reqTopics, records(bs)[i].body.topic_name)

\* C8: the DescribeTopicPartitions handler, given a parsed request none of
\* whose names a TopicRecord of the log carries (an empty topics list
\* included), returns a response with exactly one Topic: error_code 3, the
\* first requested name, the zero UUID, no partitions; next_cursor none.
C8_UnknownTopicStub ==
    [][ \A c \in Threads :
          (/\ pc[c] = "describe" /\ pc'[c] # "describe"
           /\ NoneFound(request[c].topics, batches)) =>
              /\ pc'[c] = "send"
              /\ IsDescribeBody(response'[c].body)
              /\ response'[c].body.next_cursor = "none"
              /\ Len(response'[c].body.topics) = 1
              /\ LET t == response'[c].body.topics[1] IN
                    /\ t.error_code = 3
                    /\ t.name = request[c].topics[1]
                    /\ t.topic_id = "00000000-0000-0000-0000-000000000000"
                    /\ t.partitions = <<>>
      ]_vars

\* A requested name that no TopicRecord of the log carries.
NotInLog(name, bs) ==
    \A i \in 1..Len(records(bs)) :
        records(bs)[i].type = "Topic" => records(bs)[i].body.topic_name # name

\* C9: every DescribeTopicPartitions response has, for every requested name
\* that no TopicRecord carries, a Topic with that name and error_code 3,
\* also when other requested names are found.
C9_PerTopicUnknown ==
    \A c \in Threads : \A k \in 1..Len(outbox[c]) :
        inbox[c][k].api_key = 75 =>
            LET requested == parse_request(inbox[c][k]).topics
                topics == outbox[c][k].body.topics
            IN  \A i \in 1..Len(requested) :
                    NotInLog(requested[i], batches) =>
                        \E j \in 1..Len(topics) :
                            /\ topics[j].name = requested[i]
                            /\ topics[j].error_code = 3

\* The Topics of the DescribeTopicPartitions responses written so far.
WrittenTopics ==
    UNION {UNION {IF IsDescribeBody(outbox[c][k].body)
                  THEN Range(outbox[c][k].body.topics) ELSE {} :
                  k \in 1..Len(outbox[c])} : c \in Threads}

TopicRecords == {r \in Range(records(batches)) : r.type = "Topic"}

\* C10 as claimed: every Topic of every DescribeTopicPartitions response
\* has the zero UUID if and only if its error_code is not 0, whatever the
\* log holds.
C10_ZeroUuidIffError ==
    \A t \in WrittenTopics :
        t.topic_id = "00000000-0000-0000-0000-000000000000" <=> t.error_code # 0

\* C10 amended: a Topic whose error_code is not 0 has the zero UUID, and a
\* Topic whose error_code is 0 has the uuid of a TopicRecord of the log
\* with its name; so the two sides agree whenever no TopicRecord of the log
\* carries the zero UUID.
C10_ZeroUuidAmended ==
    \A t \in WrittenTopics :
        /\ t.error_code # 0 => t.topic_id = "00000000-0000-0000-0000-000000000000"
        /\ t.error_code = 0 =>
              \E r \in TopicRecords :
                  r.body.topic_name = t.name /\ r.body.topic_uuid = t.topic_id
        /\ (\A r \in TopicRecords :
                r.body.topic_uuid # "00000000-0000-0000-0000-000000000000")
              => (t.topic_id = "00000000-0000-0000-0000-000000000000"
                    <=> t.error_code # 0)

\* A response with a found Topic and its uuid was written from a log that
\* also holds a TopicRecord with the zero UUID.
C10_Witness ==
    /\ \E t \in WrittenTopics : t.error_code = 0 /\ t.topic_id = "u2"
    /\ \E r \in TopicRecords :
          r.body.topic_uuid = "00000000-0000-0000-0000-000000000000"

\* The PartitionRecords of the log whose topic_id is U, in log order.
PartitionRecordsOf(recs, U) ==
    SelectSeq(recs, LAMBDA r : r.type = "Partition" /\ r.body.topic_id = U)

\* The TopicRecords of the log that carry a requested name, in log order.
RequestedTopicRecords(recs, requested) ==
    SelectSeq(recs, LAMBDA r : r.type = "Topic"
                               /\ Contains(requested, r.body.topic_name))

\* C11: in every DescribeTopicPartitions response the Topics with
\* error_code 0 are the TopicRecords carrying a requested name, in log
\* order, each with the record's name and uuid U, and the partitions of
\* each are exactly the PartitionRecords of the log whose topic_id is U,
\* one entry each, in log order, with error_code 0 and replicas and isr
\* echoed, wherever in the log those records stand.
C11_FoundTopicPartitions ==
    \A c \in Threads : \A k \in 1..Len(outbox[c]) :
        inbox[c][k].api_key = 75 =>
            LET requested == parse_request(inbox[c][k]).topics
                recs == records(batches)
                found == RequestedTopicRecords(recs, requested)
                topics == SelectSeq(outbox[c][k].body.topics,
                                    LAMBDA t : t.error_code = 0)
            IN  /\ Len(topics) = Len(found)
                /\ \A j \in 1..Len(topics) :
                      LET U == found[j].body.topic_uuid
                          parts == PartitionRecordsOf(recs, U)
                      IN  /\ topics[j].name = found[j].body.topic_name
                          /\ topics[j].topic_id = U
                          /\ Len(topics[j].partitions) = Len(parts)
                          /\ \A i \in 1..Len(parts) :
                                LET q == topics[j].partitions[i] IN
                                /\ q.error_code = 0
                                /\ q.partition_index = parts[i].body.partition_id
                                /\ q.replica_nodes = parts[i].body.replicas
                                /\ q.isr_nodes = parts[i].body.isr

\* The state of the partition-0 log file of the topic with id topic_id:
\* "missing" also when the metadata log names no topic for the id.
TopicLogState(topic_id) ==
    LET name == TopicNameOf(records(batches), topic_id) IN
    IF name = <<>> THEN "missing"
    ELSE LET f == topicLogs[name[1]] IN
         IF ~f.exists THEN "missing"
         ELSE IF ~f.readable THEN "unreadable"
         ELSE IF f.bytes = <<>> THEN "empty" ELSE "bytes"

C13_StreamEnd ==
    [][ \A c \in Threads :
          /\ (stream[c] = "open" /\ stream'[c] = "eof") =>
                /\ pc[c] = "read" /\ pc'[c] = "closed"
                /\ outbox'[c] = outbox[c] /\ inbox'[c] = inbox[c]
          /\ (stream[c] = "open" /\ stream'[c] \notin {"open", "eof"}) =>
                /\ pc'[c] \in {"closed", "panicked"}
                /\ outbox'[c] = outbox[c] /\ inbox'[c] = inbox[c]
          /\ stream[c] # stream'[c] =>
                UNCHANGED << alive, poisoned, lockHolder, loaded, batches >>
          /\ pc[c] \in {"closed", "panicked"} =>
                /\ pc'[c] = pc[c]
                /\ outbox'[c] = outbox[c] /\ inbox'[c] = inbox[c]
      ]_vars

\* One connection ended by EOF inside a frame body after one answered
\* request, the other by EOF at a frame boundary.
C13_Witness ==
    /\ {1, 2} \subseteq Threads
    /\ stream[1] = "eof_in_body" /\ pc[1] = "panicked" /\ Len(outbox[1]) = 1
    /\ stream[2] = "eof" /\ pc[2] = "closed"

\* A well-formed unsigned varint: every byte but the last has the high
\* bit; minimal-length when it is one byte or its last group is not zero.
WellFormedVarint(bytes) ==
    /\ Len(bytes) >= 1
    /\ \A i \in 1..(Len(bytes) - 1) : bytes[i] >= 128
    /\ bytes[Len(bytes)] < 128

MinimalVarint(bytes) ==
    WellFormedVarint(bytes) /\ (Len(bytes) = 1 \/ bytes[Len(bytes)] # 0)

\* The value of a varint: its 7-bit groups, low to high.
RECURSIVE SevenBitValue(_)
SevenBitValue(bytes) ==
    IF bytes = <<>> THEN 0
    ELSE (Head(bytes) % 128) + 128 * SevenBitValue(Tail(bytes))

\* C15: for every well-formed minimal-length unsigned varint of at most five
\* bytes, encode_varint(parse_unsigned_varlong(bytes)) gives the bytes back.
C15_VarintRoundTrip ==
    (/\ codecIn.op = "varint_roundtrip" /\ codecOut # NoResult
     /\ MinimalVarint(codecIn.arg) /\ Len(codecIn.arg) <= 5) =>
        /\ codecOut.result = "ok"
        /\ codecOut.value = codecIn.arg

\* C16: for every byte string of at most ten bytes in which exactly the
\* bytes before the last have the high bit, parse_unsigned_varlong returns
\* the sum of (b_i AND 0x7f) * 128^i.
C16_VarintDecodeSevenBit ==
    (/\ codecIn.op = "varint_decode" /\ codecOut # NoResult
     /\ WellFormedVarint(codecIn.arg) /\ Len(codecIn.arg) <= 10) =>
        /\ codecOut.result = "ok"
        /\ codecOut.value = SevenBitValue(codecIn.arg)

\* The bytes with the high bit at the head of a byte string.
RECURSIVE LeadingContinuation(_)
LeadingContinuation(bytes) ==
    IF bytes = <<>> \/ Head(bytes) < 128 THEN 0
    ELSE 1 + LeadingContinuation(Tail(bytes))

\* C17: parse_unsigned_varlong returns a value for every input of up to ten
\* bytes with the high bit followed by a terminating byte, returns an
\* InvalidData error for every input whose eleventh byte still has the high
\* bit, and for no other; it never panics.
C17_VarintLengthLimit ==
    (codecIn.op = "varint_decode" /\ codecOut # NoResult) =>
        LET k == LeadingContinuation(codecIn.arg) IN
        /\ (k <= 10 /\ Len(codecIn.arg) > k) => codecOut.result = "ok"
        /\ k >= 11 <=> codecOut.result = "err"
        /\ codecOut.result # "panic"

RoundTripOps ==
    {"bool", "int8", "int16", "int32", "int64", "uuid", "compact_string",
     "compact_nullable_string", "compact_array"}

\* C14: decoding what the codec encoded gives the value back, for every
\* bool, i8, i16, i32, i64, UUID, non-empty compact string, compact
\* nullable string (none and some) and compact array (the empty one
\* included).
C14_PrimitiveRoundTrip ==
    (codecIn.op \in RoundTripOps /\ codecOut # NoResult) =>
        /\ codecOut.result = "ok"
        /\ codecOut.value = codecIn.arg
        /\ codecOut.rest = <<>>

\* C18: parse_compact_array and parse_compact_array_with_tag_buffer return
\* the empty vector and leave every byte after the length byte unread when
\* the length is 0; with a length L >= 1 followed by L - 1 well-formed
\* elements they return those L - 1 elements in order; and the length
\* never makes them fault.
C18_CompactArrayLengthZero ==
    (codecIn.op \in {"array_decode", "string_array_decode"}
        /\ codecOut # NoResult) =>
        LET L == codecIn.arg[1]
            body == Drop(codecIn.arg, 1)
        IN  /\ codecOut.result # "panic"
            /\ L = 0 => /\ codecOut.result = "ok"
                        /\ codecOut.value = <<>>
                        /\ codecOut.rest = body
            /\ (L >= 1 /\ codecOut.result = "ok") =>
                  /\ Len(codecOut.value) = L - 1
                  /\ codecIn.op = "array_decode" =>
                        /\ \A i \in 1..(L - 1) :
                              codecOut.value[i] =
                                  FromBeBytes(SubSeq(body, 4 * i - 3, 4 * i))
                        /\ codecOut.rest = Drop(body, 4 * (L - 1))
            /\ (L >= 1 /\ codecIn.op = "array_decode"
                  /\ Len(body) >= 4 * (L - 1)) => codecOut.result = "ok"

\* The handler thread of connection c ended on a failure of its own: its
\* stream failed, its last frame does not parse, or its last frame is a
\* DescribeTopicPartitions request on which the handler panics.
OwnFailure(c) ==
    \/ stream[c] # "open"
    \/ /\ inbox[c] # <<>>
       /\ LET r == parse_request(Last(inbox[c])) IN
          \/ r.result # "ok"
          \/ /\ r.header.request_api_key = 75
             /\ handle_describe_topic_partitions(r.topics, batches).panic

\* C19: a failure while handling a request on one connection ends only that
\* connection's handler: the process stays alive, so that the accept loop
\* accepts further connections, and a handler ends in a fault only on a
\* failure of its own, so that well-formed requests on the other
\* connections are answered.
C19_FailureIsolation ==
    /\ alive
    /\ mainpc # "panicked"
    /\ \A c \in Threads : pc[c] = "panicked" => OwnFailure(c)

\* C20: a handler thread exists only once the log is Loaded; a thread is
\* inside load(), records() or message() only while it holds the mutex, so
\* at most one thread is, and a handler is only with the log Loaded.
C20_LoadedBeforeRead ==
    /\ \A c \in Threads : pc[c] \notin {"idle"} => loaded
    /\ \A c \in Threads : pc[c] \in {"describe", "fetch"} =>
          loaded /\ lockHolder = c
    /\ mainpc = "load" => lockHolder = 0
    /\ \A c, d \in Threads :
          (pc[c] \in {"describe", "fetch"} /\ pc[d] \in {"describe", "fetch"})
              => c = d
    /\ \A c \in Threads : pc[c] \in {"describe", "fetch"} => mainpc # "load"

\* The first handler is inside message() with the mutex while the main
\* thread waits for it to call load() for the second connection.
C20_Witness ==
    /\ pc[1] = "fetch" /\ lockHolder = 1 /\ loaded
    /\ mainpc = "lock" /\ pending = 2

====
